---- MODULE Spec2Model ----
(***************************************************************************)
(* Model of app2.py, the 4-camera live viewer.                             *)
(*                                                                         *)
(* Threads: the UI thread (MainWindow: start_streams, stop_streams, the    *)
(* two slots on_frame_ready / on_worker_error, closeEvent) and one         *)
(* QThread per VideoWorker.  A signal emitted by a worker thread is        *)
(* posted to the event queue of the UI thread (queued connection) and is   *)
(* run by the UI thread's event loop, in posting order, only while the UI  *)
(* thread is not inside a handler.  VideoWorker.stop blocks the UI thread  *)
(* in QThread.wait(500), so stop_streams is the only handler that other    *)
(* threads interleave with; it is split at each wait.                      *)
(***************************************************************************)
EXTENDS Integers, Sequences, FiniteSets, TLC

VARIABLES edits, dlg_urls, fps,
          urls, wk, workers, labels, btn_start, btn_stop, status, queue,
          uiPc, uiCaller, stopIdx, closed, gen, seq, nframes, shown, lim

(* edits      InputDialog.edits: the text of the four line edits, each a  *)
(*            sequence of pieces of text                                  *)
(* dlg_urls   what get_urls returned, <<>> while the dialog is open       *)
(* fps        the frame rate the capture sources report (CAP_PROP_FPS)    *)
(* urls       self.urls: the address of each slot, "" when empty          *)
(* wk         every VideoWorker created so far, by <<session, slot>>      *)
(* workers    self.workers: the handles the window holds                  *)
(* labels     self.labels: what each QLabel shows                         *)
(* btn_start, btn_stop   whether each button is enabled                   *)
(* status     the status bar message                                      *)
(* queue      the calls posted to the UI thread and not yet run           *)
(* uiPc       "loop": the UI thread is in its event loop; "wait": it is   *)
(*            inside stop_streams, blocked in the wait of a worker        *)
(* uiCaller   who called the stop_streams in progress                     *)
(* stopIdx    the index in self.workers of the worker being waited for    *)
(* closed     the window was closed and the application has left          *)
(* gen        the number of start_streams calls so far                    *)
(* seq        per slot, the number of signals emitted for it              *)
(* nframes    the number of frames read so far, over all workers          *)
(* shown      per slot, the position (in seq) of the last signal rendered *)
(* lim        the limits of the run explored: starts and frames           *)

vars == <<edits, dlg_urls, fps,
          urls, wk, workers, labels, btn_start, btn_stop, status, queue,
          uiPc, uiCaller, stopIdx, closed, gen, seq, nframes, shown, lim>>

(* ------------------------------ bounds -------------------------------- *)

\* number of start_streams calls explored
MaxStarts == 2
\* number of frames read successfully, over all workers
MaxFrames == 2
\* largest frame rate a source reports
MaxFps == 1001
\* largest number of pieces in the text of a line edit
MaxLen == 3

(* ----------------------------- constants ------------------------------ *)

\* range(4): the four camera slots
NumSlots == 4

Slots == 0 .. (NumSlots - 1)

\* a line edit is empty, or holds some address
Addresses == {"", "addr"}

(* ------------------------------ labels -------------------------------- *)

\* QLabel shows either a text or a pixmap: setText and setPixmap each
\* replace the previous content.  src is the worker whose signal was rendered.
Text(s) == [kind |-> "text", text |-> s, src |-> <<0, 0>>]

ErrorText(e) == [kind |-> "text", text |-> "Error", src |-> e.src]

Pixmap(e) == [kind |-> "pix", text |-> "", src |-> e.src]

\* Display Surface states of the design
NoSource(l) == l.kind = "text" /\ l.text \in {"no signal", "empty URL", "stopped"}

Streaming(l) == l.kind = "pix"

Error(l) == l.kind = "text" /\ l.text = "Error"

(* ------------------------------ workers ------------------------------- *)

\* VideoWorker.__init__ followed by QThread.start: the thread exists, run()
\* has not executed its first statement.  out is the list of signals the
\* worker has emitted, nread the number of read() calls that returned, ok
\* the result of the last one, stopReq whether stop() was ever called on
\* it, ms the argument of its last msleep.
VideoWorker(i) ==
    [cam_index |-> i, pc |-> "start", running |-> FALSE, cap |-> "none",
     ok |-> "unset", out |-> <<>>, nread |-> 0, stopReq |-> FALSE, ms |-> 0]

\* the calls inside which a thread can stay longer than the 500 ms of wait
Blocking == {"open", "read", "sleep"}

Finished(w) == wk[w].pc = "done"

\* the worker holds an open capture handle
HoldsHandle(w) == wk[w].cap = "opened"

(* --------------------------- worker thread ---------------------------- *)

\* Signal.emit from a worker thread: the call is posted to the UI thread's
\* event queue; t is its position among the signals emitted for slot i.
Emit(q, kind, w, i, t) == Append(q, [kind |-> kind, cam_index |-> i, src |-> w, t |-> t])

\* run(), line 41 and lines 62-63: the while test; when _running is false
\* the loop is over, the capture is released and run() returns
LoopTest(rec) ==
    IF rec.running THEN [rec EXCEPT !.pc = "read"]
    ELSE [rec EXCEPT !.pc = "done", !.cap = "released"]

\* lines 37-39 without the `return`: the error is emitted and the loop runs
AfterOpenNoReturn(rec, opened) ==
    IF opened THEN LoopTest([rec EXCEPT !.cap = "opened"])
    ELSE LoopTest([rec EXCEPT !.cap = "failed", !.out = Append(@, "error")])

\* run(), lines 37-39, after VideoCapture(source) returned: `return` when
\* isOpened() is false, the while test otherwise
AfterOpen(rec, opened) ==
    IF opened THEN LoopTest([rec EXCEPT !.cap = "opened"])
    ELSE [rec EXCEPT !.cap = "failed", !.pc = "done", !.out = Append(@, "error")]

\* run(), lines 57-60: the argument of msleep, int(1000 / fps) when the
\* source reports a rate above 0, 15 otherwise
SleepMs(f) == IF f > 0 THEN 1000 \div f ELSE 15

\* the value of the local `ok` of run(), "unset" before the first read
PyBool(b) == IF b THEN "True" ELSE "False"

\* run(), lines 43-54, what the iteration emits after read() returned
ReadSignal(ok) == IF ok THEN "frame" ELSE "error"

\* lines 43-45 without the `break`: the error is emitted and the loop goes on
AfterReadNoBreak(rec, ok) ==
    [rec EXCEPT !.pc = "sleep", !.nread = @ + 1, !.ok = PyBool(ok),
                !.ms = SleepMs(fps), !.out = Append(@, ReadSignal(ok))]

\* lines 43-54 with the frame emitted before `ok` is looked at
AfterReadFrameFirst(rec, ok) ==
    IF ok THEN [rec EXCEPT !.pc = "sleep", !.nread = @ + 1, !.ok = PyBool(ok),
                           !.ms = SleepMs(fps), !.out = Append(@, "frame")]
    ELSE [rec EXCEPT !.pc = "done", !.cap = "released", !.nread = @ + 1, !.ok = PyBool(ok),
                     !.out = Append(Append(@, "frame"), "error")]

\* run(), lines 43-63, after read() returned: `break`, release and the end
\* of run() when not ok, the pacing msleep otherwise
AfterRead(rec, ok) ==
    IF ok THEN [rec EXCEPT !.pc = "sleep", !.nread = @ + 1, !.ok = PyBool(ok),
                           !.ms = SleepMs(fps), !.out = Append(@, ReadSignal(ok))]
    ELSE [rec EXCEPT !.pc = "done", !.cap = "released", !.nread = @ + 1, !.ok = PyBool(ok),
                     !.out = Append(@, ReadSignal(ok))]

\* run(), line 34: self._running = True, then the thread enters
\* cv2.VideoCapture(self.source)
RunBegin(w) ==
    /\ ~closed
    /\ wk[w].pc = "start"
    /\ wk' = [wk EXCEPT ![w].running = TRUE, ![w].pc = "open"]
    /\ UNCHANGED <<edits, dlg_urls, fps, urls, workers, labels, btn_start, btn_stop, status, queue,
                   uiPc, uiCaller, stopIdx, closed, gen, seq, nframes, shown, lim>>

\* run(), lines 35-41: VideoCapture returns; not opened: emit error and
\* return; opened: the first while test
OpenReturn(w) ==
    /\ ~closed
    /\ wk[w].pc = "open"
    /\ \E opened \in BOOLEAN :
         /\ wk' = [wk EXCEPT ![w] = AfterOpen(@, opened)]
         /\ queue' = IF opened THEN queue
                     ELSE Emit(queue, "error", w, wk[w].cam_index, seq[wk[w].cam_index] + 1)
         /\ seq' = IF opened THEN seq ELSE [seq EXCEPT ![wk[w].cam_index] = @ + 1]
    /\ UNCHANGED <<edits, dlg_urls, fps, urls, workers, labels, btn_start, btn_stop, status,
                   uiPc, uiCaller, stopIdx, closed, gen, nframes, shown, lim>>

\* run(), lines 42-54 and 62-63: read() returns; not ok: emit error, break,
\* release, end of run; ok: convert, emit frame_ready, enter msleep
ReadReturn(w) ==
    /\ ~closed
    /\ wk[w].pc = "read"
    /\ \E ok \in BOOLEAN :
         /\ ok => nframes < lim.frames
         /\ wk' = [wk EXCEPT ![w] = AfterRead(@, ok)]
         /\ queue' = Emit(queue, ReadSignal(ok), w, wk[w].cam_index, seq[wk[w].cam_index] + 1)
         /\ nframes' = IF ok THEN nframes + 1 ELSE nframes
    /\ seq' = [seq EXCEPT ![wk[w].cam_index] = @ + 1]
    /\ UNCHANGED <<edits, dlg_urls, fps, urls, workers, labels, btn_start, btn_stop, status,
                   uiPc, uiCaller, stopIdx, closed, gen, shown, lim>>

\* run(), lines 57-60 and 41: msleep returns, then the while test
SleepReturn(w) ==
    /\ ~closed
    /\ wk[w].pc = "sleep"
    /\ wk' = [wk EXCEPT ![w] = LoopTest(@)]
    /\ UNCHANGED <<edits, dlg_urls, fps, urls, workers, labels, btn_start, btn_stop, status, queue,
                   uiPc, uiCaller, stopIdx, closed, gen, seq, nframes, shown, lim>>

(* ------------------------------ UI thread ----------------------------- *)

\* VideoWorker.stop, line 66: self._running = False (line 67, the wait, is
\* WaitReturn)
StopFlag(rec) == [rec EXCEPT !.running = FALSE, !.stopReq = TRUE]

\* QThread.wait(500) returns: True once run() has returned, False when the
\* 500 ms pass first, which takes a thread inside a blocking call
WaitOver(w) == Finished(w) \/ wk[w].pc \in Blocking

\* lines 204-206 resetting only the labels that show an image
ResetLabelsKeepText(lbls) ==
    [i \in Slots |-> IF lbls[i].kind = "pix" THEN Text("stopped") ELSE lbls[i]]

\* stop_streams, lines 204-206: every label is cleared and set to "stopped"
ResetLabels(lbls) == [i \in Slots |-> Text("stopped")]

\* lines 183-192 without the test of line 184: a worker for every slot
RECURSIVE CreateWorkersAll(_, _, _)
CreateWorkersAll(u, g, i) ==
    IF i = NumSlots THEN <<>>
    ELSE << <<g, i>> >> \o CreateWorkersAll(u, g, i + 1)

\* start_streams, lines 183-192, from slot i on: the workers created, in
\* slot order, one per non-empty url
RECURSIVE CreateWorkers(_, _, _)
CreateWorkers(u, g, i) ==
    IF i = NumSlots THEN <<>>
    ELSE (IF u[i] = "" THEN <<>> ELSE << <<g, i>> >>) \o CreateWorkers(u, g, i + 1)

\* start_streams, lines 184-186: the label of a slot with an empty url
EmptyLabels(u, lbls) == [i \in Slots |-> IF u[i] = "" THEN Text("empty URL") ELSE lbls[i]]

SeqRange(s) == {s[k] : k \in 1 .. Len(s)}

\* lines 194 and 208 flipping the button instead of setting it
StartEnabledToggle(caller) == ~btn_start

\* start_streams, line 194, and stop_streams, line 208: btn_start.setEnabled
StartEnabled(caller) == caller # "start"

\* line 209 left out: stop_streams leaves the Stop button as it was
StopEnabledKept(caller) == IF caller = "start" THEN TRUE ELSE btn_stop

\* start_streams, line 195, and stop_streams, line 209: btn_stop.setEnabled
StopEnabled(caller) == caller = "start"

\* The rest of the handler once the loop of stop_streams (lines 199-200) is
\* over.  stop_streams, lines 201-210; for start_streams then lines
\* 183-196; for closeEvent then line 238.  base is wk after this step's
\* writes to worker objects.
AfterStopLoop(caller, base) ==
    LET created == IF caller = "start" THEN CreateWorkers(urls, gen + 1, 0) ELSE <<>>
    IN  /\ workers' = created
        /\ wk' = [w \in DOMAIN base \cup SeqRange(created) |->
                    IF w \in DOMAIN base THEN base[w] ELSE VideoWorker(w[2])]
        /\ labels' = IF caller = "start" THEN EmptyLabels(urls, ResetLabels(labels))
                     ELSE ResetLabels(labels)
        /\ btn_start' = StartEnabled(caller)
        /\ btn_stop' = StopEnabled(caller)
        /\ status' = IF caller = "start" THEN "Streaming..." ELSE "Stopped"
        /\ gen' = IF caller = "start" THEN gen + 1 ELSE gen
        /\ closed' = (caller = "close")
        /\ uiPc' = "loop"
        /\ uiCaller' = "none"
        /\ stopIdx' = 0

\* stop_streams, lines 199-200, entered by `caller`: with no worker the
\* handler runs to its end; otherwise the first worker is told to stop and
\* the UI thread blocks in its wait
EnterStop(caller) ==
    IF workers = <<>>
    THEN AfterStopLoop(caller, wk)
    ELSE /\ wk' = [wk EXCEPT ![workers[1]] = StopFlag(@)]
         /\ uiPc' = "wait"
         /\ uiCaller' = caller
         /\ stopIdx' = 1
         /\ UNCHANGED <<workers, labels, btn_start, btn_stop, status, gen, closed>>

\* btn_start.clicked -> start_streams (a disabled button does not click)
StartClick ==
    /\ ~closed /\ uiPc = "loop" /\ btn_start
    /\ gen < lim.starts
    /\ EnterStop("start")
    /\ UNCHANGED <<edits, dlg_urls, fps, urls, queue, seq, nframes, shown, lim>>

\* btn_stop.clicked -> stop_streams
StopClick ==
    /\ ~closed /\ uiPc = "loop" /\ btn_stop
    /\ EnterStop("stop")
    /\ UNCHANGED <<edits, dlg_urls, fps, urls, queue, seq, nframes, shown, lim>>

\* closeEvent: stop_streams, then the window closes and the application
\* leaves its event loop
CloseWindow ==
    /\ ~closed /\ uiPc = "loop"
    /\ EnterStop("close")
    /\ UNCHANGED <<edits, dlg_urls, fps, urls, queue, seq, nframes, shown, lim>>

\* VideoWorker.stop, line 67, returns inside the loop of stop_streams: the
\* next worker is told to stop, or the handler runs to its end
WaitReturn ==
    /\ ~closed /\ uiPc = "wait"
    /\ WaitOver(workers[stopIdx])
    /\ IF stopIdx < Len(workers)
       THEN /\ wk' = [wk EXCEPT ![workers[stopIdx + 1]] = StopFlag(@)]
            /\ stopIdx' = stopIdx + 1
            /\ UNCHANGED <<workers, labels, btn_start, btn_stop, status, gen,
                           closed, uiPc, uiCaller>>
       ELSE AfterStopLoop(uiCaller, wk)
    /\ UNCHANGED <<edits, dlg_urls, fps, urls, queue, seq, nframes, shown, lim>>

\* an event loop that takes the newest posted call
DequeueNewest(q) == <<q[Len(q)], SubSeq(q, 1, Len(q) - 1)>>

\* Signals connected across threads (lines 189-190) are queued: the event
\* loop takes the oldest posted call and leaves the rest
Dequeue(q) == <<Head(q), Tail(q)>>

NextEvent(q) == Dequeue(q)[1]

RestEvents(q) == Dequeue(q)[2]

\* the position of the signal a slot has rendered last
Rendered(sh, e) ==
    IF e.cam_index \in Slots THEN [sh EXCEPT ![e.cam_index] = e.t] ELSE sh

\* on_frame_ready, lines 216-224
FrameLabels(lbls, e) ==
    IF 0 <= e.cam_index /\ e.cam_index < NumSlots
    THEN [lbls EXCEPT ![e.cam_index] = Pixmap(e)]
    ELSE lbls

\* lines 228-230 indexing the labels by the camera number shown (index + 1)
ErrorLabelsNext(lbls, e) ==
    IF 0 <= e.cam_index /\ e.cam_index < NumSlots
    THEN [lbls EXCEPT ![(e.cam_index + 1) % NumSlots] = ErrorText(e)]
    ELSE lbls

\* on_worker_error, lines 228-230
ErrorLabels(lbls, e) ==
    IF 0 <= e.cam_index /\ e.cam_index < NumSlots
    THEN [lbls EXCEPT ![e.cam_index] = ErrorText(e)]
    ELSE lbls

\* the event loop runs on_frame_ready for a posted frame_ready signal
DeliverFrame ==
    /\ ~closed /\ uiPc = "loop" /\ queue # <<>>
    /\ LET e == NextEvent(queue)
       IN  /\ e.kind = "frame"
           /\ labels' = FrameLabels(labels, e)
           /\ shown' = Rendered(shown, e)
    /\ queue' = RestEvents(queue)
    /\ UNCHANGED <<edits, dlg_urls, fps, urls, wk, workers, btn_start, btn_stop, status,
                   uiPc, uiCaller, stopIdx, closed, gen, seq, nframes, lim>>

\* the event loop runs on_worker_error for a posted error signal
DeliverError ==
    /\ ~closed /\ uiPc = "loop" /\ queue # <<>>
    /\ LET e == NextEvent(queue)
       IN  /\ e.kind = "error"
           /\ labels' = ErrorLabels(labels, e)
           /\ status' = "[X]"
           /\ shown' = Rendered(shown, e)
    /\ queue' = RestEvents(queue)
    /\ UNCHANGED <<edits, dlg_urls, fps, urls, wk, workers, btn_start, btn_stop,
                   uiPc, uiCaller, stopIdx, closed, gen, seq, nframes, lim>>

(* --------------------------- specification ---------------------------- *)

\* the addresses given exactly for the slots of S
UrlsOf(S) == [i \in Slots |-> IF i \in S THEN "addr" ELSE ""]

\* The text of a line edit is a sequence of pieces: white space, the two
\* scheme words, the scheme separator, and any other text ("h").
Pieces == {" ", "http", "rtsp", "://", "h"}

Texts == UNION {[1 .. n -> Pieces] : n \in 0 .. MaxLen}

RECURSIVE lstrip(_)
lstrip(t) == IF t # <<>> /\ Head(t) = " " THEN lstrip(Tail(t)) ELSE t

RECURSIVE rstrip(_)
rstrip(t) ==
    IF t # <<>> /\ t[Len(t)] = " " THEN rstrip(SubSeq(t, 1, Len(t) - 1)) ELSE t

\* str.strip() with only the leading white space removed
stripLeading(t) == lstrip(t)

\* str.strip(), line 111
strip(t) == rstrip(lstrip(t))

\* str.startswith, line 116
startswith(t, p) == Len(t) >= Len(p) /\ SubSeq(t, 1, Len(p)) = p

\* the body of the loop of get_urls, lines 112-119, on the stripped text
Url(txt) ==
    IF txt = <<>>
    THEN <<>>
    ELSE IF startswith(txt, <<"http", "://">>) \/ startswith(txt, <<"rtsp", "://">>)
         THEN txt
         ELSE <<"http", "://">> \o txt \o <<"/video">>

\* InputDialog.get_urls, lines 108-120
get_urls(e) == [k \in 1 .. Len(e) |-> Url(strip(e[k]))]

\* what MainWindow tells apart in an address: line 184, `if not url`
AddressOf(u) == IF u = <<>> THEN "" ELSE "addr"

\* the line edits that give the window the addresses u
EditsFor(u) == [k \in 1 .. NumSlots |-> IF u[k - 1] = "" THEN <<>> ELSE <<"h">>]

\* The runs explored: a single camera started up to MaxStarts times, and
\* two cameras started once, reading up to MaxFrames frames in all.
Runs ==
    {[urls |-> UrlsOf({2}), starts |-> MaxStarts, frames |-> MaxFrames, fps |-> 30],
     [urls |-> UrlsOf({0, 2}), starts |-> 1, frames |-> MaxFrames, fps |-> 30]}

NumCams(u) == Cardinality({i \in Slots : u[i] # ""})

\* The runs explored for the grid: every assignment of the four addresses;
\* a restart with at most one camera, a frame with at most two.
GridRuns ==
    {[urls |-> u,
      starts |-> IF NumCams(u) <= 1 THEN 2 ELSE 1,
      frames |-> IF NumCams(u) <= 2 THEN 1 ELSE 0,
      fps |-> 0] : u \in [Slots -> Addresses]}

\* The runs explored for the pacing: one camera started once and read once,
\* its source reporting any rate up to MaxFps.
PacingRuns ==
    {[urls |-> UrlsOf({2}), starts |-> 1, frames |-> 1, fps |-> f] : f \in 0 .. MaxFps}

\* InputDialog accepted, MainWindow.__init__ done, the event loop running
InitOf(R) ==
    /\ \E r \in R :
         /\ edits = EditsFor(r.urls)
         /\ urls = r.urls
         /\ fps = r.fps
         /\ lim = [starts |-> r.starts, frames |-> r.frames]
    /\ dlg_urls = get_urls(edits)
    /\ wk = <<>>
    /\ workers = <<>>
    /\ labels = [i \in Slots |-> Text("no signal")]
    /\ btn_start = TRUE
    /\ btn_stop = FALSE
    /\ status = "Ready"
    /\ queue = <<>>
    /\ uiPc = "loop"
    /\ uiCaller = "none"
    /\ stopIdx = 0
    /\ closed = FALSE
    /\ gen = 0
    /\ seq = [i \in Slots |-> 0]
    /\ nframes = 0
    /\ shown = [i \in Slots |-> 0]

Init == InitOf(Runs)

InitGrid == InitOf(GridRuns)

InitPacing == InitOf(PacingRuns)

Next ==
    \/ StartClick
    \/ StopClick
    \/ CloseWindow
    \/ WaitReturn
    \/ DeliverFrame
    \/ DeliverError
    \/ \E w \in DOMAIN wk : RunBegin(w)
    \/ \E w \in DOMAIN wk : OpenReturn(w)
    \/ \E w \in DOMAIN wk : ReadReturn(w)
    \/ \E w \in DOMAIN wk : SleepReturn(w)

Spec == Init /\ [][Next]_vars

SpecGrid == InitGrid /\ [][Next]_vars

SpecPacing == InitPacing /\ [][Next]_vars

\* the contents of the four line edits when the dialog is accepted: any
\* text in one of them, nothing or a bare address in the others
DialogEdits ==
    {[j \in 1 .. NumSlots |-> IF j = k THEN t ELSE o[j]] :
        k \in 1 .. NumSlots, t \in Texts, o \in [1 .. NumSlots -> {<<>>, <<"h">>}]}

\* main(), lines 273-274: the dialog is open, the window not yet built (its
\* variables hold what __init__ will give them)
InitDialog ==
    /\ edits \in DialogEdits
    /\ dlg_urls = <<>>
    /\ fps = 0
    /\ urls = UrlsOf({})
    /\ lim = [starts |-> 0, frames |-> 0]
    /\ wk = <<>>
    /\ workers = <<>>
    /\ labels = [i \in Slots |-> Text("no signal")]
    /\ btn_start = TRUE
    /\ btn_stop = FALSE
    /\ status = "Ready"
    /\ queue = <<>>
    /\ uiPc = "loop"
    /\ uiCaller = "none"
    /\ stopIdx = 0
    /\ closed = FALSE
    /\ gen = 0
    /\ seq = [i \in Slots |-> 0]
    /\ nframes = 0
    /\ shown = [i \in Slots |-> 0]

\* main(), lines 277-279: the dialog accepted, get_urls, MainWindow(urls)
Accept ==
    /\ dlg_urls = <<>>
    /\ dlg_urls' = get_urls(edits)
    /\ urls' = [i \in Slots |-> AddressOf(dlg_urls'[i + 1])]
    /\ UNCHANGED <<edits, fps, wk, workers, labels, btn_start, btn_stop, status,
                   queue, uiPc, uiCaller, stopIdx, closed, gen, seq, nframes,
                   shown, lim>>

NextDialog == Accept

SpecDialog == InitDialog /\ [][NextDialog]_vars

\* the slot indices handed to the two slots when they are exercised on
\* their own: every index of the grid, and one past each end
RouteIndices == (0 - 1) .. NumSlots

\* what a label can show while a session runs
RouteLabels(i) ==
    {Text("stopped"),
     Pixmap([src |-> <<1, i>>]),
     ErrorText([src |-> <<1, i>>])}

\* on_frame_ready / on_worker_error called with any index: a window with a
\* session started, any content in its labels, and one call posted
InitRoute ==
    /\ edits = EditsFor(UrlsOf(Slots))
    /\ dlg_urls = get_urls(edits)
    /\ fps = 0
    /\ urls = UrlsOf(Slots)
    /\ lim = [starts |-> 1, frames |-> 0]
    /\ wk = [w \in SeqRange(CreateWorkers(urls, 1, 0)) |-> VideoWorker(w[2])]
    /\ workers = CreateWorkers(urls, 1, 0)
    /\ labels \in {l \in [Slots -> UNION {RouteLabels(i) : i \in Slots}] :
                     \A i \in Slots : l[i] \in RouteLabels(i)}
    /\ btn_start = StartEnabled("start")
    /\ btn_stop = StopEnabled("start")
    /\ status \in {"Streaming...", "[X]"}
    /\ \E kind \in {"frame", "error"}, i \in RouteIndices :
         queue = Emit(<<>>, kind, <<1, 0>>, i, 1)
    /\ uiPc = "loop"
    /\ uiCaller = "none"
    /\ stopIdx = 0
    /\ closed = FALSE
    /\ gen = 1
    /\ seq = [i \in Slots |-> 0]
    /\ nframes = 0
    /\ shown = [i \in Slots |-> 0]

NextRoute ==
    \/ DeliverFrame
    \/ DeliverError

SpecRoute == InitRoute /\ [][NextRoute]_vars

(* ------------------------------- claims ------------------------------- *)

\* the loops of slot i whose run() has not returned
ActiveLoops(i) == {w \in DOMAIN wk : wk[w].cam_index = i /\ ~Finished(w)}

\* C1: at most one Acquisition Loop whose run() has not finished exists per
\* slot index, in every reachable state.
C1_OneLoopPerSlot == \A i \in Slots : Cardinality(ActiveLoops(i)) <= 1

\* C2: once a session has been restarted, whatever a Display Surface shows
\* (a frame or an error) comes from a loop created by the latest
\* start_streams.
C2_NoStaleDelivery ==
    \A i \in Slots :
        (Streaming(labels[i]) \/ Error(labels[i])) => labels[i].src[1] = gen

\* C3: a stop request is never lost: once stop() was called on a loop, its
\* _running flag is down, so that its next while test ends the loop.
C3_StopNeverLost ==
    \A w \in DOMAIN wk : wk[w].stopReq => ~wk[w].running

\* C4: when stop_streams has returned and the handles are cleared, every
\* loop has finished run() and none holds an open source handle.
C4_StoppedLoopsReleased ==
    (uiPc = "loop" /\ workers = <<>>) =>
        \A w \in DOMAIN wk : Finished(w) /\ ~HoldsHandle(w)

\* the handles of self.workers bound to slot i
HandlesOf(i) == {k \in 1 .. Len(workers) : wk[workers[k]].cam_index = i}

\* C5: after start_streams has returned, for every assignment of the four
\* addresses, there is exactly one handle for each slot with a non-empty
\* address, bound to that slot and created by this start, and no loop for a
\* slot with an empty address, whose label shows "empty URL" (no source).
C5_OneLoopPerAddress ==
    (uiPc = "loop" /\ btn_stop) =>
        \A i \in Slots :
            IF urls[i] # ""
            THEN /\ Cardinality(HandlesOf(i)) = 1
                 /\ \A k \in HandlesOf(i) : workers[k] = <<gen, i>>
            ELSE /\ HandlesOf(i) = {}
                 /\ \A w \in DOMAIN wk : wk[w].cam_index # i
                 /\ labels[i] = Text("empty URL")
                 /\ NoSource(labels[i])

\* C5 witness: the scenario of the design, addresses for slots 0 and 2 only,
\* started and two loops running
C5_Witness ==
    /\ uiPc = "loop" /\ btn_stop
    /\ urls = UrlsOf({0, 2})
    /\ Len(workers) = 2
    /\ labels[1] = Text("empty URL")

\* a step in which stop_streams, called by the Stop button or closeEvent,
\* returns
StopReturns == (btn_stop /\ ~btn_stop') \/ (~closed /\ closed')

\* C6: when stop_streams returns, every Display Surface is in NoSource and
\* the set of loop handles is empty, whatever each surface showed before.
C6_StopResetsSurfaces ==
    [][StopReturns => (workers' = <<>> /\ \A i \in Slots : NoSource(labels'[i]))]_vars

\* C6 witness: stopped, all surfaces idle, after slot 0 and slot 2 were each
\* sent a frame or an error that was rendered
C6_Witness ==
    /\ uiPc = "loop" /\ btn_start /\ ~closed /\ status = "Stopped"
    /\ workers = <<>>
    /\ \A i \in Slots : labels[i] = Text("stopped")
    /\ shown[0] > 0 /\ shown[2] > 0
    /\ \E w \in DOMAIN wk : wk[w].cap = "failed"
    /\ \E w \in DOMAIN wk : wk[w].nread > 0 /\ wk[w].ok = "True"

\* C7: a loop whose source fails to open emits exactly one StreamError and
\* no Frame, and has terminated.
C7_OpenFailure ==
    \A w \in DOMAIN wk :
        wk[w].cap = "failed" => (wk[w].out = <<"error">> /\ Finished(w))

\* C7 witness: a loop whose open failed, its error rendered
C7_Witness ==
    \E w \in DOMAIN wk :
        /\ wk[w].cap = "failed"
        /\ Error(labels[wk[w].cam_index]) /\ labels[wk[w].cam_index].src = w

Frames(n) == [k \in 1 .. n |-> "frame"]

\* C8: a loop that opened its source, got no stop request and whose read
\* fails after N successful reads has emitted exactly N Frames followed by
\* exactly one StreamError, and has stopped.
C8_ReadFailure ==
    \A w \in DOMAIN wk :
        (wk[w].ok = "False" /\ ~wk[w].stopReq) =>
            /\ Finished(w)
            /\ ~HoldsHandle(w)
            /\ wk[w].out = Frames(wk[w].nread - 1) \o <<"error">>

\* C8 witness: a loop, never told to stop, that failed after one good read
C8_Witness ==
    \E w \in DOMAIN wk :
        wk[w].ok = "False" /\ ~wk[w].stopReq /\ wk[w].nread = 2 /\ Finished(w)

\* C9: a loop emits at most one signal per iteration, nothing after a
\* StreamError and nothing after run() has returned.
C9_ErrorIsLast ==
    [][\A w \in DOMAIN wk :
          LET o == wk[w].out
              o2 == wk'[w].out
          IN  /\ Len(o2) <= Len(o) + 1
              /\ Finished(w) => (o2 = o /\ wk'[w].pc = "done")
              /\ (o # <<>> /\ o[Len(o)] = "error") => o2 = o]_vars

\* C9 witness: a loop that emitted a frame, then an error, and returned,
\* with other threads still running
C9_Witness ==
    \E w \in DOMAIN wk :
        /\ Finished(w) /\ wk[w].out = <<"frame", "error">>
        /\ \E v \in DOMAIN wk : ~Finished(v)

\* C10: per slot, signals are rendered in the order they were emitted: the
\* position (in emission order) of what a slot renders never goes back.
C10_SlotOrder ==
    [][\A i \in Slots : shown'[i] >= shown[i]]_vars

\* C10 witness: a slot has rendered its second signal while a third waits
C10_Witness ==
    \E i \in Slots : shown[i] = 2 /\ seq[i] = 3 /\ Len(queue) = 1

\* the controller state is exactly as stop_streams leaves it
JustStopped ==
    /\ uiPc = "loop"
    /\ workers = <<>>
    /\ labels = ResetLabels(labels)
    /\ btn_start /\ ~btn_stop
    /\ status = "Stopped"

\* C11: a second consecutive stop_streams (the one closeEvent makes right
\* after a stop) leaves the loop handles, the Display Surfaces, the buttons
\* and the status exactly as the first one left them.
C11_StopIdempotent ==
    [][(JustStopped /\ ~closed /\ closed') =>
          /\ workers' = workers
          /\ labels' = labels
          /\ btn_start' = btn_start /\ btn_stop' = btn_stop
          /\ status' = status]_vars

\* C11 witness: a session was stopped after its loop had ended on its own,
\* and nothing has happened since: the next stop_streams is a second one
C11_Witness ==
    /\ JustStopped /\ ~closed /\ gen >= 1 /\ queue = <<>>
    /\ \A w \in DOMAIN wk : Finished(w) /\ wk[w].stopReq
    /\ \E w \in DOMAIN wk : wk[w].ok = "False"

\* C12: a Display Surface in Error leaves it only by the reset of
\* stop_streams (to NoSource); no Frame moves it back to Streaming.
C12_ErrorIsTerminal ==
    [][\A i \in Slots :
          Error(labels[i]) => (Error(labels'[i]) \/ NoSource(labels'[i]))]_vars

\* stop_streams drops the handle of a loop whose run() has not returned
DiscardsRunning ==
    \E k \in 1 .. Len(workers) :
        /\ workers[k] \notin SeqRange(workers')
        /\ wk'[workers[k]].pc # "done"

\* C13: stop_streams never drops the handle of a still-running loop without
\* signalling the fault: the status then shows something else than the
\* plain "Stopped" / "Streaming..." of a clean stop.
C13_TimeoutReported ==
    [][DiscardsRunning => status' \notin {"Stopped", "Streaming..."}]_vars

\* a step in which the loop w fails to open or to read
Fails(w) == Len(wk'[w].out) > Len(wk[w].out) /\ wk'[w].out[Len(wk'[w].out)] = "error"

\* a step in which the event loop runs on_worker_error
HandlesError ==
    /\ uiPc = "loop" /\ queue # <<>> /\ Head(queue).kind = "error"
    /\ queue' = Tail(queue)

\* C14: a failure of the loop of slot i, and the handling of its
\* StreamError, leave every other loop and every other Display Surface as
\* they were.
C14_FailureScoped ==
    [][/\ \A w \in DOMAIN wk :
             Fails(w) => (labels' = labels /\ \A v \in DOMAIN wk \ {w} : wk'[v] = wk[v])
       /\ HandlesError =>
             /\ wk' = wk
             /\ \A j \in Slots \ {Head(queue).cam_index} : labels'[j] = labels[j]]_vars

\* C14 witness: slot 0 shows the error of its loop while the loop of slot 2
\* still runs and slot 2 still shows its frame
C14_Witness ==
    /\ Error(labels[0]) /\ Streaming(labels[2])
    /\ \E w \in DOMAIN wk : wk[w].cam_index = 2 /\ ~Finished(w)
    /\ uiPc = "loop" /\ btn_stop

C18_IdleWhileStopped ==
    (uiPc = "loop" /\ btn_start) => \A i \in Slots : NoSource(labels[i])

\* a step in which some loop's run() returns
LoopEnds == \E w \in DOMAIN wk : ~Finished(w) /\ wk'[w].pc = "done"

\* C19: exactly one of Start and Stop is enabled; while Start is enabled
\* self.workers is empty; a loop that ends on its own, and the handling of
\* its error, leave the handles and the buttons as they were.
C19_Buttons ==
    [][/\ btn_start # btn_stop /\ btn_start' # btn_stop'
       /\ btn_start => workers = <<>>
       /\ btn_start' => workers' = <<>>
       /\ (LoopEnds \/ HandlesError) =>
             UNCHANGED <<workers, btn_start, btn_stop>>]_vars

\* C19 witness: a session whose only loop has ended on its own and whose
\* error was handled: the handle is still held and Stop is still the
\* enabled button
C19_Witness ==
    /\ uiPc = "loop" /\ btn_stop /\ ~btn_start
    /\ Len(workers) = 1 /\ Finished(workers[1]) /\ ~wk[workers[1]].stopReq
    /\ Error(labels[wk[workers[1]].cam_index])

\* the pieces of t at the positions S are white space
Blank(t, S) == \A j \in S : t[j] = " "

\* s begins with one of the two schemes the dialog knows
Recognized(s) == Len(s) >= 2 /\ s[1] \in {"http", "rtsp"} /\ s[2] = "://"

\* u is what the dialog makes of the text t: t is white space, s, white
\* space, with s not beginning or ending in white space, and u is made of s
Normalised(t, u) ==
    \E a, b \in 0 .. Len(t) :
        /\ a + b <= Len(t)
        /\ Blank(t, 1 .. a)
        /\ Blank(t, (Len(t) - b + 1) .. Len(t))
        /\ LET s == SubSeq(t, a + 1, Len(t) - b)
           IN  /\ s # <<>> => s[1] # " " /\ s[Len(s)] # " "
               /\ u = CASE s = <<>> -> <<>>
                        [] s # <<>> /\ Recognized(s) -> s
                        [] OTHER -> <<"http", "://">> \o s \o <<"/video">>

C17_PositiveWait ==
    \A w \in DOMAIN wk :
        wk[w].pc = "sleep" =>
            /\ wk[w].ms > 0
            /\ fps <= 0 => wk[w].ms = 15

====
